---- MODULE Spec2Model ----
(***************************************************************************)
(* Model of programs/buck_repo.py: the bootstrap of a locally built buck.  *)
(* BuckRepo.__init__ brings the checkout to the revision the project       *)
(* requires (_checkout_and_clean), then builds buck when the marker        *)
(* build/successful-build is missing (_build).  The launcher then asks the *)
(* object for the version uid and the extra java arguments.                *)
(*                                                                         *)
(* Every subprocess the code starts and every exception it raises is       *)
(* appended to `log` as a record [op, rc]; the position in the constructor *)
(* is `pc`.                                                                *)
(***************************************************************************)
EXTENDS Naturals, Integers, Sequences, FiniteSets, TLC

\* ---------------------------------------------------------------- bounds
\* launcher runs (the first run and its re-executions after RestartBuck)
MaxRuns == 2

\* length of the ANT_OPTS value of the caller's environment
MaxOptLen == 5

\* ---------------------------------------------------------------- values
Revs == {"r1", "r2"}
NoVersion == "none"          \* buck_project.buck_version is falsy (no .buckversion)
NoBranch == "none"           \* buck_version has a single element
Branches == {"master"}
Unset == "unset"             \* os.environ.get(...) is None
DirtyEnvValues == {Unset, "", "1", "0"}   \* BUCK_REPOSITORY_DIRTY
None == <<"None">>           \* Python's None where text is expected
Absent == <<"absent">>       \* the file does not exist
\* text is a sequence of characters
Whitespace == {" ", "\n"}
FakeEnvValues == {None, <<>>, <<"v", "1">>}            \* BUCK_FAKE_VERSION
FakeFileContents == {Absent, <<>>, <<" ", "\n">>, <<"v", "2">>, <<" ", "v", "2", "\n">>}
CleanEnvValues == {None, <<"N", "O">>, <<"n", "o">>}   \* BUCK_CLEAN_REPO_IF_DIRTY
Choices == {<<"y">>, <<"Y">>, <<"n">>, <<>>}           \* the line read by raw_input()
Platforms == {"linux2", "cygwin"}
\* os.environ as get_ant_env sees it: a dict from names to text
OptChars == {"-", "X", "m", "x", " "}
OptTexts == UNION {[1..n -> OptChars] : n \in 0..MaxOptLen}
EnvNames == {"ANT_OPTS", "JAVA_HOME"}
OtherEnvs == {[k \in D |-> <<"/", "j">>] : D \in SUBSET (EnvNames \ {"ANT_OPTS"})}
Environs ==
    OtherEnvs \cup
    {[k \in DOMAIN o \cup {"ANT_OPTS"} |-> IF k = "ANT_OPTS" THEN t ELSE o[k]] :
        o \in OtherEnvs, t \in OptTexts}
HeapSizes == {256, 1000}     \* max_heap_size_mb

VARIABLES
    \* the checkout on disk
    rev,            \* revision the working tree is at
    localRevs,      \* revisions present in the local object store
    marker,         \* build/successful-build exists
    dirty,          \* the tree does not cleanly match its revision
    localMods,      \* `git ls-files -m` prints something
    \* the host and the project
    host,           \* [dotGit, git, platform, dirtyEnv]
    project,        \* [has_no_buck_check, revision, branch]
    \* the BuckRepo object
    _is_git,
    _is_buck_repo_dirty_override,
    \* execution
    pc,             \* position of the run
    log,            \* subprocesses started and exceptions raised in this run
    runs,           \* number of launcher runs so far
    last            \* the last query made of the constructed object

world == <<rev, localRevs, marker, dirty, localMods>>
config == <<host, project>>
object == <<_is_git, _is_buck_repo_dirty_override>>
vars == <<rev, localRevs, marker, dirty, localMods, host, project,
          _is_git, _is_buck_repo_dirty_override, pc, log, runs, last>>

\* ---------------------------------------------------------------- helpers
Ev(op, rc) == [op |-> op, rc |-> rc]
Did(op) == \E i \in 1..Len(log) : log[i].op = op
DidOk(op) == \E i \in 1..Len(log) : log[i].op = op /\ log[i].rc = 0
Count(op) == Cardinality({i \in 1..Len(log) : log[i].op = op})
Pos(op) == CHOOSE i \in 1..Len(log) : log[i].op = op

NoQuery == [name |-> "none", result |-> "none", ops |-> <<>>, raised |-> "none"]

\* BuckToolException raised: the bootstrap aborts
Fatal(events) ==
    /\ pc' = "fatal"
    /\ log' = log \o events \o <<Ev("BuckToolException", 1)>>

\* ---------------------------------------------------------------- Init
Init ==
    /\ rev \in Revs
    /\ localRevs \in {s \in SUBSET Revs : rev \in s}
    /\ marker \in BOOLEAN
    /\ dirty \in BOOLEAN
    /\ localMods \in {m \in BOOLEAN : m => dirty}
    /\ host \in [dotGit : BOOLEAN, git : BOOLEAN, platform : Platforms,
                 dirtyEnv : DirtyEnvValues]
    /\ project \in {p \in [has_no_buck_check : BOOLEAN,
                           revision : Revs \cup {NoVersion},
                           branch : Branches \cup {NoBranch}] :
                      p.revision = NoVersion => p.branch = NoBranch}
    /\ _is_git = FALSE
    /\ _is_buck_repo_dirty_override = Unset
    /\ pc = "start"
    /\ log = <<>>
    /\ runs = 1
    /\ last = NoQuery

\* ---------------------------------------------------------------- __init__
\* the constructor as it would be if .nobuckcheck were not consulted
__init___ignoring_nobuckcheck ==
    /\ pc = "start"
    /\ _is_git' = (host.dotGit /\ host.git /\ host.platform # "cygwin")
    /\ _is_buck_repo_dirty_override' = host.dirtyEnv
    /\ pc' = IF _is_git' /\ project.revision # NoVersion
             THEN "cc_revision_exists"
             ELSE "build"
    /\ UNCHANGED <<world, config, log, runs, last>>

\* lines 56-74: compute _is_git and the dirty override, then decide whether
\* _checkout_and_clean runs before _build.
__init__ ==
    /\ pc = "start"
    /\ _is_git' = (host.dotGit /\ host.git /\ host.platform # "cygwin")
    /\ _is_buck_repo_dirty_override' = host.dirtyEnv
    /\ pc' = IF _is_git' /\ ~project.has_no_buck_check /\ project.revision # NoVersion
             THEN "cc_revision_exists"
             ELSE "build"
    /\ UNCHANGED <<world, config, log, runs, last>>

\* ---------------------------------------------------------------- VCS gateway
\* lines 144-148: `git cat-file -e revision` exits 0 iff the revision resolves
_revision_exists(revision) == revision \in localRevs

\* lines 134-137
_get_git_revision == IF ~_is_git THEN "N/A" ELSE rev

\* ---------------------------------------------------------------- _checkout_and_clean
\* the probe as it would be if a revision found locally ended the check
cc_revision_exists_skips_comparison ==
    /\ pc = "cc_revision_exists"
    /\ LET exists == _revision_exists(project.revision) IN
        /\ log' = log \o <<Ev("Tracing _checkout_and_clean", 0),
                            Ev("git cat-file", IF exists THEN 0 ELSE 1)>>
        /\ pc' = IF exists THEN "build" ELSE "cc_fetch"
    /\ UNCHANGED <<world, config, object, runs, last>>

\* lines 77-78: enter the traced block and probe for the revision
cc_revision_exists ==
    /\ pc = "cc_revision_exists"
    /\ LET exists == _revision_exists(project.revision) IN
        /\ log' = log \o <<Ev("Tracing _checkout_and_clean", 0),
                            Ev("git cat-file", IF exists THEN 0 ELSE 1)>>
        /\ pc' = IF exists THEN "cc_current_revision" ELSE "cc_fetch"
    /\ UNCHANGED <<world, config, object, runs, last>>

\* the fetch as it would be if its failure were swallowed
cc_fetch_ignoring_failure ==
    /\ pc = "cc_fetch"
    /\ LET cmd == IF project.branch = NoBranch THEN "git fetch --all"
                  ELSE "git fetch origin" IN
       \E ok \in BOOLEAN, brought \in BOOLEAN :
          /\ log' = Append(log, Ev(cmd, IF ok THEN 0 ELSE 1))
          /\ localRevs' = IF ok /\ brought THEN localRevs \cup {project.revision}
                          ELSE localRevs
          /\ pc' = "cc_current_revision"
    /\ UNCHANGED <<rev, marker, dirty, localMods, config, object, runs, last>>

\* lines 86-95: git fetch --all, or git fetch origin <branch>; a non-zero exit
\* raises BuckToolException.  A successful fetch may or may not bring the
\* required revision.
cc_fetch ==
    /\ pc = "cc_fetch"
    /\ LET cmd == IF project.branch = NoBranch THEN "git fetch --all"
                  ELSE "git fetch origin" IN
       \E ok \in BOOLEAN, brought \in BOOLEAN :
          IF ok
          THEN /\ log' = Append(log, Ev(cmd, 0))
               /\ localRevs' = IF brought THEN localRevs \cup {project.revision}
                               ELSE localRevs
               /\ pc' = "cc_current_revision"
          ELSE /\ Fatal(<<Ev(cmd, 1)>>)
               /\ UNCHANGED localRevs
    /\ UNCHANGED <<rev, marker, dirty, localMods, config, object, runs, last>>

\* the step as it would be if the checkout did not depend on the comparison
cc_current_revision_always_checkout ==
    /\ pc = "cc_current_revision"
    /\ log' = Append(log, Ev("git rev-parse", 0))
    /\ pc' = "cc_checkout"
    /\ UNCHANGED <<world, config, object, runs, last>>

\* lines 97-99: read the current revision and compare it with the required one
cc_current_revision ==
    /\ pc = "cc_current_revision"
    /\ LET current_revision == _get_git_revision IN
        /\ log' = Append(log, Ev("git rev-parse", 0))
        /\ pc' = IF current_revision # project.revision THEN "cc_checkout"
                 ELSE "build"
    /\ UNCHANGED <<world, config, object, runs, last>>

\* the checkout as it would be if it left the tree at another revision than
\* the required one
cc_checkout_elsewhere ==
    /\ pc = "cc_checkout"
    /\ \E ok \in {b \in BOOLEAN : b => project.revision \in localRevs} :
          IF ok
          THEN /\ log' = Append(log, Ev("git checkout", 0))
               /\ rev' = rev
               /\ pc' = "cc_remove_marker"
          ELSE /\ Fatal(<<Ev("git checkout", 1)>>)
               /\ UNCHANGED rev
    /\ UNCHANGED <<localRevs, marker, dirty, localMods, config, object, runs, last>>

\* lines 108-114: git checkout --quiet revision; it can only succeed for a
\* revision of the local object store, and a non-zero exit raises
\* BuckToolException.
cc_checkout ==
    /\ pc = "cc_checkout"
    /\ \E ok \in {b \in BOOLEAN : b => project.revision \in localRevs} :
          IF ok
          THEN /\ log' = Append(log, Ev("git checkout", 0))
               /\ rev' = project.revision
               /\ pc' = "cc_remove_marker"
          ELSE /\ Fatal(<<Ev("git checkout", 1)>>)
               /\ UNCHANGED rev
    /\ UNCHANGED <<localRevs, marker, dirty, localMods, config, object, runs, last>>

\* the step as it would be if the stale marker were kept
cc_keep_marker ==
    /\ pc = "cc_remove_marker"
    /\ pc' = "cc_check_for_ant"
    /\ UNCHANGED <<world, config, object, log, runs, last>>

\* lines 115-116: the marker of the previous build is stale now
cc_remove_marker ==
    /\ pc = "cc_remove_marker"
    /\ marker' = FALSE
    /\ log' = IF marker THEN Append(log, Ev("os.remove", 0)) ELSE log
    /\ pc' = "cc_check_for_ant"
    /\ UNCHANGED <<rev, localRevs, dirty, localMods, config, object, runs, last>>

\* ---------------------------------------------------------------- ant
\* lines 150-157: which('ant'); BuckToolException when ant is not on $PATH
_check_for_ant(here, next) ==
    /\ pc = here
    /\ \E found \in BOOLEAN :
          IF found
          THEN /\ log' = Append(log, Ev("which ant", 0))
               /\ pc' = next
          ELSE Fatal(<<Ev("which ant", 1)>>)
    /\ UNCHANGED <<world, config, object, runs, last>>

\* lines 159-173: print where the log of the failed ant run is; the caller
\* then raises BuckToolException with the remedy
_print_ant_failure_and_exit(ant_log_path) ==
    <<[op |-> "print ant failed", rc |-> 0, path |-> ant_log_path]>>

\* `ant clean` as it would be if its exit code were ignored
_run_ant_clean_ignoring_exitcode(here, next) ==
    /\ pc = here
    /\ \E exitcode \in 0..1 :
          /\ log' = Append(log, Ev("ant clean", exitcode))
          /\ pc' = next
    /\ UNCHANGED <<world, config, object, runs, last>>

\* lines 175-181: `ant clean`, logged to ant-clean.log; a non-zero exit code
\* prints the failure and raises BuckToolException
_run_ant_clean(here, next) ==
    /\ pc = here
    /\ \E exitcode \in 0..1 :
          IF exitcode # 0
          THEN Fatal(<<Ev("ant clean", exitcode)>>
                     \o _print_ant_failure_and_exit("ant-clean.log"))
          ELSE /\ log' = Append(log, Ev("ant clean", 0))
               /\ pc' = next
    /\ UNCHANGED <<world, config, object, runs, last>>

\* the marker is written by the default target of the ant build when it
\* succeeds; nothing in buck_repo.py writes it
AntBuildEffect(exitcode) == IF exitcode = 0 THEN TRUE ELSE marker

\* lines 183-189: `ant`, logged to ant.log; a non-zero exit code prints the
\* failure and raises BuckToolException
_run_ant(here, next) ==
    /\ pc = here
    /\ \E exitcode \in 0..1 :
          /\ marker' = AntBuildEffect(exitcode)
          /\ IF exitcode # 0
             THEN Fatal(<<Ev("ant", exitcode)>>
                        \o _print_ant_failure_and_exit("ant.log"))
             ELSE /\ log' = Append(log, Ev("ant", 0))
                  /\ pc' = next
    /\ UNCHANGED <<rev, localRevs, dirty, localMods, config, object, runs, last>>

\* line 118 as it would be if the clean step were skipped
cc_check_for_ant_then_restart == _check_for_ant("cc_check_for_ant", "cc_restart")
\* line 118
cc_check_for_ant == _check_for_ant("cc_check_for_ant", "cc_run_ant_clean")
\* line 119
cc_run_ant_clean == _run_ant_clean("cc_run_ant_clean", "cc_restart")
\* line 120 as it would be if the constructor caught RestartBuck and went on
cc_restart_caught ==
    /\ pc = "cc_restart"
    /\ log' = Append(log, Ev("RestartBuck", 0))
    /\ pc' = "build"
    /\ UNCHANGED <<world, config, object, runs, last>>

\* line 120
cc_restart ==
    /\ pc = "cc_restart"
    /\ log' = Append(log, Ev("RestartBuck", 0))
    /\ pc' = "restart"
    /\ UNCHANGED <<world, config, object, runs, last>>

_checkout_and_clean ==
    \/ cc_revision_exists
    \/ cc_fetch
    \/ cc_current_revision
    \/ cc_checkout
    \/ cc_remove_marker
    \/ cc_check_for_ant
    \/ cc_run_ant_clean
    \/ cc_restart

\* ---------------------------------------------------------------- _build
\* the test of the marker as it would be if it were inverted
b_marker_exists_inverted ==
    /\ pc = "build"
    /\ log' = Append(log, Ev("Tracing _build", 0))
    /\ pc' = IF marker THEN "b_check_for_ant" ELSE "ready"
    /\ UNCHANGED <<world, config, object, runs, last>>

\* lines 192-193: enter the traced block; build only when the marker is missing
b_marker_exists ==
    /\ pc = "build"
    /\ log' = Append(log, Ev("Tracing _build", 0))
    /\ pc' = IF ~marker THEN "b_check_for_ant" ELSE "ready"
    /\ UNCHANGED <<world, config, object, runs, last>>

\* line 197
b_check_for_ant == _check_for_ant("b_check_for_ant", "b_run_ant_clean")
\* line 198
b_run_ant_clean == _run_ant_clean("b_run_ant_clean", "b_run_ant")
\* line 199
b_run_ant == _run_ant("b_run_ant", "ready")

_build ==
    \/ b_marker_exists
    \/ b_check_for_ant
    \/ b_run_ant_clean
    \/ b_run_ant

\* ---------------------------------------------------------------- text
\* str.strip(): drop leading and trailing whitespace
RECURSIVE lstrip(_)
lstrip(s) == IF s # <<>> /\ Head(s) \in Whitespace THEN lstrip(Tail(s)) ELSE s
RECURSIVE rstrip(_)
rstrip(s) == IF s # <<>> /\ s[Len(s)] \in Whitespace
             THEN rstrip(SubSeq(s, 1, Len(s) - 1)) ELSE s
strip(s) == rstrip(lstrip(s))

\* str.lower() as it would be if the answer were compared as typed
lower_as_typed(s) == s

\* str.lower() on the characters the prompt can read
lower(s) == [i \in 1..Len(s) |-> IF s[i] = "Y" THEN "y" ELSE s[i]]

\* truth value of an optional string: None and "" are false
Truthy(s) == s # None /\ s # <<>>
TruthyEnv(v) == v # Unset /\ v # ""

\* ---------------------------------------------------------------- buck_version
\* buck_version.get_clean_buck_version(dir, allow_dirty): the revision of the
\* checkout when the tree is clean or may be treated as clean, else None
get_clean_buck_version(allow_dirty) ==
    IF allow_dirty \/ ~dirty THEN <<"clean", rev>> ELSE None

\* buck_version.get_dirty_buck_version(dir): an identity of the tree content
get_dirty_buck_version == <<"dirty", rev>>

\* buck_version.is_dirty(dir)
is_dirty == dirty

\* buck_version.get_git_revision_timestamp(dir)
get_git_revision_timestamp == IF rev = "r1" THEN 100 ELSE 200

\* ---------------------------------------------------------------- queries
\* lines 125-132: [result, ops]
_has_local_changes ==
    IF ~_is_git THEN [result |-> FALSE, ops |-> <<>>]
    ELSE [result |-> localMods, ops |-> <<Ev("git ls-files -m", 0)>>]

\* lines 139-142
_get_git_commit_timestamp ==
    IF TruthyEnv(_is_buck_repo_dirty_override) \/ ~_is_git
    THEN [result |-> -1, ops |-> <<>>]
    ELSE [result |-> get_git_revision_timestamp, ops |-> <<Ev("git log", 0)>>]

\* the version to fake as it would be if .fakebuckversion came before the
\* environment
fake_buck_version_file_first(fakeEnv, fakeFile) ==
    IF fakeFile # Absent /\ Truthy(strip(fakeFile)) THEN strip(fakeFile) ELSE fakeEnv

\* the version to fake as it would be if the file content were not stripped
fake_buck_version_unstripped(fakeEnv, fakeFile) ==
    IF ~Truthy(fakeEnv) /\ fakeFile # Absent THEN fakeFile ELSE fakeEnv

\* lines 216-222: BUCK_FAKE_VERSION, else the stripped content of
\* .fakebuckversion when the file exists
fake_buck_version(fakeEnv, fakeFile) ==
    IF ~Truthy(fakeEnv) /\ fakeFile # Absent THEN strip(fakeFile) ELSE fakeEnv

\* lines 233-235 as they would be if the clean version were never found
clean_version_never == None

\* lines 233-235: the clean version, a dirty tree being allowed when the
\* override is "1"
clean_version == get_clean_buck_version(_is_buck_repo_dirty_override = "1")

\* lines 241-242 as they would be if the opt-out were not consulted
no_check_never == FALSE

\* lines 241-242: .nobuckcheck exists or there is no .buckversion
no_check == project.has_no_buck_check \/ project.revision = NoVersion

\* lines 211-271: [result, ops, raised, cleaned] for the environment
\* (fakeEnv, cleanEnv), the content of .fakebuckversion, the terminal and the
\* answer the user gives when asked
_get_buck_version_uid(fakeEnv, fakeFile, cleanEnv, isatty, answer) ==
    LET fake == fake_buck_version(fakeEnv, fakeFile)
        changes == _has_local_changes
        Return(r, o) == [result |-> r, ops |-> o, raised |-> "none", cleaned |-> FALSE]
    IN
    IF Truthy(fake)
    THEN Return(fake, <<Ev("print faking", 0)>>)
    ELSE IF clean_version # None
    THEN Return(clean_version, <<>>)
    ELSE IF no_check
    THEN Return(get_dirty_buck_version, <<>>)
    ELSE IF changes.result
    THEN Return(get_dirty_buck_version,
                changes.ops \o <<Ev("print local modifications", 0),
                                 Ev("git ls-files -m", 0)>>)
    ELSE IF cleanEnv # <<"N", "O">>
    THEN IF isatty
         THEN IF lower(answer) = <<"y">>
              THEN [result |-> None,
                    ops |-> changes.ops \o <<Ev("print dirty", 0), Ev("print prompt", 0),
                                             Ev("git clean -fd", 0)>>,
                    raised |-> "RestartBuck", cleaned |-> TRUE]
              ELSE Return(get_dirty_buck_version,
                          changes.ops \o <<Ev("print dirty", 0), Ev("print prompt", 0)>>)
         ELSE Return(get_dirty_buck_version, changes.ops \o <<Ev("print dirty", 0)>>)
    ELSE Return(get_dirty_buck_version, changes.ops)

\* what a call can do in the current state, over every environment, content
\* of .fakebuckversion, terminal and answer; the file is read only when the
\* environment gives no version (line 217) and a line is read only from a
\* terminal (line 259), so what is not read is not varied
UidInputs ==
    {i \in FakeEnvValues \X FakeFileContents \X CleanEnvValues \X BOOLEAN \X Choices :
        /\ Truthy(i[1]) => i[2] = Absent
        /\ ~i[4] => i[5] = <<>>}
UidOutcomes == {_get_buck_version_uid(i[1], i[2], i[3], i[4], i[5]) : i \in UidInputs}

\* the effect of a call of _get_buck_version_uid made by `name`: `git clean
\* -fd` discards the untracked files, which may leave the tree clean, and
\* RestartBuck leaves the run
UidEffect(name, u, result) ==
    /\ last' = [name |-> name, result |-> result, ops |-> u.ops, raised |-> u.raised]
    /\ pc' = IF u.raised = "RestartBuck" THEN "restart" ELSE pc
    /\ IF u.cleaned THEN dirty' \in BOOLEAN ELSE dirty' = dirty
    /\ UNCHANGED <<rev, localRevs, marker, localMods, config, object, log, runs>>

Answer(name, r) ==
    /\ last' = [name |-> name, result |-> r.result, ops |-> r.ops, raised |-> "none"]
    /\ UNCHANGED <<world, config, object, pc, log, runs>>

QueryRevision ==
    /\ pc = "ready"
    /\ Answer("_get_git_revision",
              [result |-> _get_git_revision,
               ops |-> IF _is_git THEN <<Ev("git rev-parse", 0)>> ELSE <<>>])

QueryLocalChanges ==
    /\ pc = "ready"
    /\ Answer("_has_local_changes", _has_local_changes)

QueryTimestamp ==
    /\ pc = "ready"
    /\ Answer("_get_git_commit_timestamp", _get_git_commit_timestamp)

QueryVersionUid ==
    /\ pc = "ready"
    /\ \E u \in UidOutcomes : UidEffect("_get_buck_version_uid", u, u.result)

\* lines 276-285: the uid, the commit timestamp and the dirty flag
_get_extra_java_args ==
    /\ pc = "ready"
    /\ \E u \in UidOutcomes :
          LET t == _get_git_commit_timestamp
              git_dirty == IF _is_buck_repo_dirty_override = "1" \/ is_dirty
                           THEN 1 ELSE 0
              args == [git_commit |-> u.result,
                       git_commit_timestamp |-> t.result,
                       git_dirty |-> git_dirty]
          IN UidEffect("_get_extra_java_args",
                       IF u.raised = "none" THEN [u EXCEPT !.ops = u.ops \o t.ops] ELSE u,
                       IF u.raised = "none" THEN args ELSE None)

\* ---------------------------------------------------------------- resolve
\* a call of _get_buck_version_uid made of the constructed object, once in a
\* run, with what it read kept next to what it did
AllUidInputs == FakeEnvValues \X FakeFileContents \X CleanEnvValues \X BOOLEAN \X Choices

resolve ==
    /\ pc = "ready"
    /\ last = NoQuery
    /\ \E i \in AllUidInputs :
          LET u == _get_buck_version_uid(i[1], i[2], i[3], i[4], i[5]) IN
          /\ last' = [name |-> "resolve", result |-> u.result, ops |-> u.ops,
                      raised |-> u.raised, input |-> i,
                      before |-> [dirty |-> dirty, localMods |-> localMods]]
          /\ pc' = IF u.raised = "RestartBuck" THEN "restart" ELSE pc
          /\ IF u.cleaned THEN dirty' \in BOOLEAN ELSE dirty' = dirty
          /\ UNCHANGED <<rev, localRevs, marker, localMods, config, object, log, runs>>

\* ---------------------------------------------------------------- get_ant_env
\* '{0}'.format(n) for a natural number
DigitChars == <<"0", "1", "2", "3", "4", "5", "6", "7", "8", "9">>
RECURSIVE format(_)
format(n) == IF n < 10 THEN <<DigitChars[n + 1]>>
             ELSE format(n \div 10) \o <<DigitChars[(n % 10) + 1]>>

\* str.find(sub): the lowest index (from 0) at which sub starts, or -1
find(s, sub) ==
    LET hits == {k \in 0..(Len(s) - Len(sub)) : SubSeq(s, k + 1, k + Len(sub)) = sub}
    IN IF hits = {} THEN -1 ELSE CHOOSE k \in hits : \A j \in hits : k <= j

\* dict.get(key, default) and d[key] = value
get(d, key, default) == IF key \in DOMAIN d THEN d[key] ELSE default
set(d, key, value) == [k \in DOMAIN d \cup {key} |-> IF k = key THEN value ELSE d[k]]

\* get_ant_env as it would be if the heap size were added without looking
\* for one
get_ant_env_always_appending(environ, max_heap_size_mb) ==
    LET ant_env == environ
        ant_opts == get(ant_env, "ANT_OPTS", <<>>)
        ant_max_heap_arg == <<"-", "X", "m", "x">> \o format(max_heap_size_mb) \o <<"m">>
        with_space == IF ant_opts # <<>> THEN ant_opts \o <<" ">> ELSE ant_opts
    IN [ant_env |-> set(ant_env, "ANT_OPTS", with_space \o ant_max_heap_arg),
        environ |-> environ]

\* lines 41-51: [ant_env, environ], the environment returned and os.environ
\* after the call; the code works on a copy
get_ant_env(environ, max_heap_size_mb) ==
    LET ant_env == environ
        ant_opts == get(ant_env, "ANT_OPTS", <<>>)
        ant_max_heap_arg == <<"-", "X", "m", "x">> \o format(max_heap_size_mb) \o <<"m">>
        with_space == IF ant_opts # <<>> THEN ant_opts \o <<" ">> ELSE ant_opts
    IN IF find(ant_opts, <<"-", "X", "m", "x">>) = -1
       THEN [ant_env |-> set(ant_env, "ANT_OPTS", with_space \o ant_max_heap_arg),
             environ |-> environ]
       ELSE [ant_env |-> ant_env, environ |-> environ]

\* a process whose environment is any of Environs
InitAntEnv ==
    /\ rev = "r1"
    /\ localRevs = {"r1"}
    /\ marker = FALSE
    /\ dirty = FALSE
    /\ localMods = FALSE
    /\ host \in [dotGit : {FALSE}, git : {FALSE}, platform : {"linux2"},
                 dirtyEnv : {Unset}, environ : Environs]
    /\ project = [has_no_buck_check |-> FALSE, revision |-> NoVersion,
                  branch |-> NoBranch]
    /\ _is_git = FALSE
    /\ _is_buck_repo_dirty_override = Unset
    /\ pc = "start"
    /\ log = <<>>
    /\ runs = 1
    /\ last = NoQuery

\* lines 179 and 187: the environment given to ant
call_get_ant_env ==
    /\ \E max_heap_size_mb \in HeapSizes :
          LET r == get_ant_env(host.environ, max_heap_size_mb) IN
          last' = [name |-> "get_ant_env", max_heap_size_mb |-> max_heap_size_mb,
                   ant_env |-> r.ant_env, environ |-> r.environ]
    /\ UNCHANGED <<world, config, object, pc, log, runs>>

SpecAntEnv == InitAntEnv /\ [][call_get_ant_env]_vars

\* ---------------------------------------------------------------- launcher
\* RestartBuck reaches the launcher, which executes itself again
Relaunch ==
    /\ pc = "restart"
    /\ runs < MaxRuns
    /\ runs' = runs + 1
    /\ pc' = "start"
    /\ log' = <<>>
    /\ last' = NoQuery
    /\ UNCHANGED <<world, config, object>>

Next ==
    \/ __init__
    \/ _checkout_and_clean
    \/ _build
    \/ QueryRevision
    \/ QueryLocalChanges
    \/ QueryTimestamp
    \/ QueryVersionUid
    \/ _get_extra_java_args
    \/ Relaunch

Spec == Init /\ [][Next]_vars

\* the bootstrap followed by one recorded call of _get_buck_version_uid
NextResolve ==
    \/ __init__
    \/ _checkout_and_clean
    \/ _build
    \/ resolve
    \/ Relaunch

SpecResolve == Init /\ [][NextResolve]_vars

\* ---------------------------------------------------------------- properties
GitOps == {"git cat-file", "git fetch --all", "git fetch origin", "git rev-parse",
           "git checkout", "git ls-files -m", "git log", "git clean -fd"}
FetchOps == {"git fetch --all", "git fetch origin"}
DidFetch == \E op \in FetchOps : Did(op)
FetchFailed == \E i \in 1..Len(log) : log[i].op \in FetchOps /\ log[i].rc # 0
CheckoutFailed == \E i \in 1..Len(log) : log[i].op = "git checkout" /\ log[i].rc # 0
\* positions inside _checkout_and_clean and inside _build
CcPcs == {"cc_revision_exists", "cc_fetch", "cc_current_revision", "cc_checkout",
          "cc_remove_marker", "cc_check_for_ant", "cc_run_ant_clean", "cc_restart"}
BuildPcs == {"build", "b_check_for_ant", "b_run_ant_clean", "b_run_ant"}

\* C1 as stated: every run of _checkout_and_clean whose checkout succeeded
\* ends with exactly one RestartBuck, whatever ant does (found or not, exit 0
\* or not).
C1_RestartWhateverAntDoes ==
    (pc \in {"restart", "fatal", "ready"} /\ DidOk("git checkout"))
        => Count("RestartBuck") = 1

\* C1 amended: after a successful checkout RestartBuck is raised at most once,
\* and the run ends with exactly one RestartBuck exactly when ant was found
\* and `ant clean` exited 0; otherwise it ends with BuckToolException and no
\* RestartBuck.
C1_RestartOnceIffCleanSucceeds ==
    DidOk("git checkout") =>
        /\ Count("RestartBuck") <= 1
        /\ pc \notin CcPcs =>
              /\ pc \in {"restart", "fatal"}
              /\ (pc = "restart") <=> (DidOk("which ant") /\ DidOk("ant clean"))
              /\ (pc = "restart") <=> (Count("RestartBuck") = 1)
              /\ (pc = "fatal") <=> (Count("BuckToolException") = 1)

C1_Witness ==
    /\ pc = "restart"
    /\ DidOk("git checkout")
    /\ DidOk("ant clean")
    /\ Count("RestartBuck") = 1

\* C2: once the checkout has succeeded, the marker is absent from the removal
\* step on: whenever ant has been looked for or started, and at every exit of
\* the run (RestartBuck, ant not found, clean failed).
C2_NoStaleMarkerAfterCheckout ==
    (DidOk("git checkout") /\ pc # "cc_remove_marker") =>
        /\ ~marker
        /\ rev = project.revision

C2_Witness ==
    /\ pc = "fatal"
    /\ DidOk("git checkout")
    /\ Did("os.remove")
    /\ Did("ant clean")
    /\ ~marker

\* C3: when the current revision read in _checkout_and_clean equals the
\* required one, the step goes to _build and changes nothing; the run shows
\* no checkout, no marker removal, no ant call made by _checkout_and_clean and
\* no RestartBuck, and no step up to the comparison touches the checkout or
\* the marker.
C3_EqualRevisionNoMutation ==
    /\ [][(pc = "cc_current_revision" /\ rev = project.revision) =>
             /\ pc' = "build"
             /\ UNCHANGED <<rev, localRevs, marker, dirty, localMods>>
             /\ log' = Append(log, Ev("git rev-parse", 0))]_vars
    /\ [][(pc \in {"start", "cc_revision_exists", "cc_fetch", "cc_current_revision"}) =>
             (rev' = rev /\ marker' = marker)]_vars
    /\ []((pc = "build" /\ Did("Tracing _checkout_and_clean")) =>
             /\ rev = project.revision
             /\ ~Did("git checkout")
             /\ ~Did("os.remove")
             /\ ~Did("which ant")
             /\ ~Did("ant clean")
             /\ ~Did("RestartBuck"))

C3_Witness ==
    /\ pc = "build"
    /\ Did("git rev-parse")
    /\ rev = project.revision
    /\ marker

\* C4 as stated: after a successful checkout both the clean step and the
\* build step have run before RestartBuck is raised.
C4_CleanAndBuildBeforeRestart ==
    (DidOk("git checkout") /\ Did("RestartBuck")) =>
        /\ DidOk("ant clean")
        /\ DidOk("ant")

\* C4 amended: after a successful checkout only the clean step runs (ant is
\* looked up, then `ant clean`), it has exited 0 before RestartBuck is raised,
\* the build step is never run by _checkout_and_clean, and a missing ant or a
\* failed clean ends the run with BuckToolException.
C4_CleanOnlyBeforeRestart ==
    DidOk("git checkout") =>
        /\ ~Did("ant")
        /\ ~Did("Tracing _build")
        /\ Did("RestartBuck") =>
              /\ DidOk("which ant")
              /\ DidOk("ant clean")
              /\ Pos("git checkout") < Pos("which ant")
              /\ Pos("which ant") < Pos("ant clean")
              /\ Pos("ant clean") < Pos("RestartBuck")
        /\ ((Did("which ant") /\ ~DidOk("which ant")) \/
            (Did("ant clean") /\ ~DidOk("ant clean"))) => pc = "fatal"

C4_Witness ==
    /\ pc = "restart"
    /\ DidOk("git checkout")
    /\ DidOk("ant clean")
    /\ ~Did("ant")
    /\ Did("RestartBuck")

\* ops of the last query
LastDid(op) == \E i \in 1..Len(last.ops) : last.ops[i].op = op

\* C5: while the repository is not version-controlled (_is_git false), no
\* git subprocess is ever started, by the constructor or by any query made of
\* the object (the interactive `git clean -fd` included), and the queries
\* return their sentinels: "N/A", -1, no local changes.
C5_NoVcsWhenNotVersionControlled ==
    (pc # "start" /\ ~_is_git) =>
        /\ \A op \in GitOps : ~Did(op) /\ ~LastDid(op)
        /\ last.name = "_get_git_revision" => last.result = "N/A"
        /\ last.name = "_get_git_commit_timestamp" => last.result = -1
        /\ last.name = "_has_local_changes" => last.result = FALSE

\* C6: when the repository is not version-controlled, or .nobuckcheck is
\* present, or the project has no required version, the constructor goes
\* straight to _build: _checkout_and_clean is not entered, so the run has no
\* probe, fetch, checkout, marker removal or RestartBuck, and ant is only
\* called by _build.
C6_EnsureRevisionSkipped ==
    /\ [][(pc = "start" /\ (\/ ~(host.dotGit /\ host.git /\ host.platform # "cygwin")
                            \/ project.has_no_buck_check
                            \/ project.revision = NoVersion)) =>
             /\ pc' = "build"
             /\ log' = log
             /\ UNCHANGED <<rev, localRevs, marker, dirty, localMods>>]_vars
    /\ []((pc # "start" /\ (\/ ~_is_git
                            \/ project.has_no_buck_check
                            \/ project.revision = NoVersion)) =>
             /\ pc \notin CcPcs
             /\ ~Did("Tracing _checkout_and_clean")
             /\ ~Did("git cat-file")
             /\ ~DidFetch
             /\ ~Did("git rev-parse")
             /\ ~Did("git checkout")
             /\ ~Did("os.remove")
             /\ ~Did("RestartBuck")
             /\ Did("which ant") =>
                   /\ Did("Tracing _build")
                   /\ Pos("Tracing _build") < Pos("which ant"))

C6_Witness ==
    /\ pc = "build"
    /\ _is_git
    /\ project.has_no_buck_check
    /\ project.revision # NoVersion
    /\ rev # project.revision
    /\ log = <<>>

\* C7: when the required revision is missing locally and the fetch fails, the
\* run ends with BuckToolException and nothing else has happened: the failing
\* step and the steps before it leave the revision, the object store and the
\* marker as they were, and the run has no revision query, checkout, marker
\* removal, ant call or RestartBuck and never enters _build.
C7_FetchFailureIsFatalAndClean ==
    /\ [](FetchFailed =>
             /\ pc = "fatal"
             /\ Count("BuckToolException") = 1
             /\ ~DidOk("git cat-file")
             /\ ~Did("git rev-parse")
             /\ ~Did("git checkout")
             /\ ~Did("os.remove")
             /\ ~Did("which ant")
             /\ ~Did("ant clean")
             /\ ~Did("ant")
             /\ ~Did("RestartBuck")
             /\ ~Did("Tracing _build"))
    /\ [][(pc = "cc_fetch" /\ pc' = "fatal") =>
             (rev' = rev /\ marker' = marker /\ localRevs' = localRevs)]_vars
    /\ [][(pc \in {"start", "cc_revision_exists"}) =>
             (rev' = rev /\ marker' = marker /\ localRevs' = localRevs)]_vars

C7_Witness ==
    /\ FetchFailed
    /\ pc = "fatal"
    /\ marker
    /\ rev # project.revision

\* C8: in _checkout_and_clean a fetch is attempted exactly when the probe did
\* not find the revision, and the current revision is read and compared (with
\* a checkout exactly on mismatch) in every run whose fetch did not fail,
\* whether the revision was found locally or fetched.
C8_ProbeAndComparisonIndependent ==
    /\ [](pc = "cc_fetch" => (~DidOk("git cat-file") /\ ~DidFetch))
    /\ []((Did("git cat-file") /\ pc # "cc_fetch") =>
             (DidFetch <=> ~DidOk("git cat-file")))
    /\ []((Did("git cat-file") /\ pc \notin {"cc_fetch", "cc_current_revision"}
              /\ ~FetchFailed) => Did("git rev-parse"))
    /\ [](Did("git checkout") =>
             (Did("git rev-parse") /\ Pos("git rev-parse") < Pos("git checkout")))
    /\ [][(pc = "cc_current_revision") =>
             ((pc' = "cc_checkout") <=> (rev # project.revision))]_vars

C8_Witness ==
    /\ \E op \in FetchOps : DidOk(op)
    /\ Did("git rev-parse")
    /\ DidOk("git checkout")

\* C9: _checkout_and_clean, when it applies, is entered before _build; once
\* it has raised RestartBuck or BuckToolException the run is over (restart or
\* fatal) and _build is never entered in that run.
C9_ExceptionsSkipBuild ==
    /\ (Did("Tracing _checkout_and_clean") /\ Did("Tracing _build")) =>
           Pos("Tracing _checkout_and_clean") < Pos("Tracing _build")
    /\ ((pc \in BuildPcs \cup {"ready"}) /\ _is_git /\ ~project.has_no_buck_check
            /\ project.revision # NoVersion) => Did("Tracing _checkout_and_clean")
    /\ pc \in CcPcs => ~Did("Tracing _build")
    /\ Did("RestartBuck") => pc = "restart"
    /\ (FetchFailed \/ CheckoutFailed) => pc = "fatal"
    /\ (Did("RestartBuck") \/ FetchFailed \/ CheckoutFailed \/ DidOk("git checkout")) =>
           /\ ~Did("Tracing _build")
           /\ pc \notin BuildPcs
           /\ pc # "ready"

C9_Witness ==
    /\ pc = "restart"
    /\ Did("RestartBuck")
    /\ ~Did("Tracing _build")
    /\ ~marker

PrintedLogPaths == {log[i].path : i \in {j \in 1..Len(log) : log[j].op = "print ant failed"}}

\* C11: when the clean step exits non-zero, the build step is never run, the
\* run ends with BuckToolException after the failure has been printed with
\* the path of the clean log (and of no other log), and the marker does not
\* exist.
C11_CleanFailureStopsBuild ==
    (Did("ant clean") /\ ~DidOk("ant clean")) =>
        /\ pc = "fatal"
        /\ ~Did("ant")
        /\ ~marker
        /\ PrintedLogPaths = {"ant-clean.log"}
        /\ Count("BuckToolException") = 1
        /\ Pos("ant clean") < Pos("print ant failed")
        /\ Pos("print ant failed") < Pos("BuckToolException")

C11_Witness ==
    /\ pc = "fatal"
    /\ Did("Tracing _build")
    /\ Did("ant clean")
    /\ ~DidOk("ant clean")
    /\ ~marker

\* ---------------------------------------------------------------- resolve()
\* the recorded call and what it read
Resolved == last.name = "resolve"
EnvGiven == last.input[1] \notin {None, <<>>}
\* .fakebuckversion exists and holds more than whitespace
FileHasText ==
    /\ last.input[2] # Absent
    /\ \E k \in 1..Len(last.input[2]) : last.input[2][k] \notin Whitespace
\* r is f without its leading and trailing whitespace
IsTrimOf(r, f) ==
    /\ r # <<>>
    /\ r[1] \notin Whitespace
    /\ r[Len(r)] \notin Whitespace
    /\ \E a \in 0..(Len(f) - Len(r)) :
          /\ SubSeq(f, a + 1, a + Len(r)) = r
          /\ \A k \in 1..a : f[k] \in Whitespace
          /\ \A k \in (a + Len(r) + 1)..Len(f) : f[k] \in Whitespace
\* the state the call found
CleanComputable == _is_buck_repo_dirty_override = "1" \/ ~last.before.dirty
CleanIdentity == <<"clean", rev>>
DirtyIdentity == <<"dirty", rev>>
HasLocalModifications == _is_git /\ last.before.localMods
OptedOutOrNoRequirement == project.has_no_buck_check \/ project.revision = NoVersion
Diagnostics == {"print faking", "print local modifications", "print dirty", "print prompt"}
\* the call returned and left the tree as it was
ReturnedQuietly == last.raised = "none" /\ pc = "ready" /\ dirty = last.before.dirty

\* C12: with a non-empty BUCK_FAKE_VERSION the call returns exactly that
\* string after the warning and does nothing else (no query of local
\* modifications, no prompt, no git clean, no RestartBuck), whatever the file,
\* the tree, the opt-out and the requirement are.
C12_EnvOverrideWins ==
    (Resolved /\ EnvGiven) =>
        /\ last.result = last.input[1]
        /\ last.ops = <<Ev("print faking", 0)>>
        /\ ReturnedQuietly

C12_Witness ==
    /\ Resolved
    /\ last.input[1] = <<"v", "1">>
    /\ last.input[2] = <<"v", "2">>
    /\ ~last.before.dirty
    /\ last.result = <<"v", "1">>

\* C13: without BUCK_FAKE_VERSION the call returns the trimmed content of
\* .fakebuckversion, after the same warning, exactly when the file exists and
\* holds more than whitespace; otherwise it goes on to the clean version and
\* never returns an empty identity.
C13_FileOverrideWhenNonEmpty ==
    (Resolved /\ ~EnvGiven) =>
        IF FileHasText
        THEN /\ IsTrimOf(last.result, last.input[2])
             /\ last.ops = <<Ev("print faking", 0)>>
             /\ ReturnedQuietly
        ELSE /\ ~LastDid("print faking")
             /\ \/ last.raised = "RestartBuck"
                \/ last.result \in {CleanIdentity, DirtyIdentity}

C13_Witness ==
    /\ Resolved
    /\ last.input[1] = None
    /\ last.input[2] = <<" ", "v", "2", "\n">>
    /\ last.result = <<"v", "2">>

\* C14: with no override and a clean version that can be computed, the call
\* returns the clean version and does nothing else, whatever the opt-out,
\* the requirement and the prompt switch are.
C14_CleanVersionReturned ==
    (Resolved /\ ~EnvGiven /\ ~FileHasText /\ CleanComputable) =>
        /\ last.result = CleanIdentity
        /\ last.ops = <<>>
        /\ ReturnedQuietly

C14_Witness ==
    /\ Resolved
    /\ ~EnvGiven
    /\ last.input[2] = <<" ", "\n">>
    /\ ~last.before.dirty
    /\ _is_git
    /\ ~OptedOutOrNoRequirement
    /\ last.input[4]
    /\ last.result = CleanIdentity

\* C15: the call raises RestartBuck exactly when no override applies, the
\* clean version cannot be computed, version checking is required and not
\* opted out, the repository reports no local modifications, the prompt is
\* not disabled (BUCK_CLEAN_REPO_IF_DIRTY is not NO), stdout is a terminal and
\* the answer is y or Y; `git clean -fd` runs exactly then, as the last thing
\* before the signal.  Otherwise, when it gets past the overrides and the
\* clean version, it returns the dirty version and leaves the tree alone.
RestartCondition ==
    /\ ~EnvGiven
    /\ ~FileHasText
    /\ ~CleanComputable
    /\ ~OptedOutOrNoRequirement
    /\ ~HasLocalModifications
    /\ last.input[3] # <<"N", "O">>
    /\ last.input[4]
    /\ last.input[5] \in {<<"y">>, <<"Y">>}

C15_RestartOnlyAfterConfirmedClean ==
    Resolved =>
        /\ (last.raised = "RestartBuck") <=> RestartCondition
        /\ LastDid("git clean -fd") <=> (last.raised = "RestartBuck")
        /\ last.raised = "RestartBuck" =>
              /\ pc = "restart"
              /\ last.ops[Len(last.ops)] = Ev("git clean -fd", 0)
        /\ (last.raised # "RestartBuck" /\ ~EnvGiven /\ ~FileHasText /\ ~CleanComputable) =>
              /\ last.result = DirtyIdentity
              /\ ReturnedQuietly

C15_Witness ==
    /\ Resolved
    /\ last.raised = "RestartBuck"
    /\ last.input[5] = <<"Y">>
    /\ LastDid("git clean -fd")
    /\ pc = "restart"

\* C16 as stated: every call that returns the dirty version has printed a
\* diagnostic before returning.
C16_DirtyVersionNeverSilent ==
    (Resolved /\ last.raised = "none" /\ last.result = DirtyIdentity) =>
        \E k \in 1..Len(last.ops) : last.ops[k].op \in Diagnostics

\* C17: with no override and no clean version, a project that opted out of
\* the version check or has no required version gets the dirty version at
\* once: no query of local modifications, no prompt, no git clean, no
\* RestartBuck.
C17_NoCheckGoesStraightToDirty ==
    (Resolved /\ ~EnvGiven /\ ~FileHasText /\ ~CleanComputable
        /\ OptedOutOrNoRequirement) =>
        /\ last.result = DirtyIdentity
        /\ last.ops = <<>>
        /\ ReturnedQuietly

C17_Witness ==
    /\ Resolved
    /\ ~EnvGiven
    /\ ~FileHasText
    /\ last.before.dirty
    /\ last.before.localMods
    /\ _is_git
    /\ project.has_no_buck_check
    /\ project.revision # NoVersion
    /\ last.input[4]
    /\ last.input[5] = <<"y">>
    /\ last.result = DirtyIdentity

\* C18: a run that ends with the RestartBuck of _checkout_and_clean leaves the
\* checkout at the required revision, where it stays; a later run therefore
\* does no fetch and no checkout, raises no RestartBuck from
\* _checkout_and_clean and goes on to _build, so that _checkout_and_clean
\* restarts the launcher at most once, in its first run.
C18_RestartConverges ==
    /\ [](Did("RestartBuck") =>
             /\ runs = 1
             /\ pc = "restart"
             /\ rev = project.revision)
    /\ [][(rev = project.revision) => (rev' = project.revision)]_vars
    /\ [](runs >= 2 =>
             /\ ~DidFetch
             /\ ~Did("git checkout")
             /\ ~Did("os.remove")
             /\ ~Did("RestartBuck")
             /\ pc \notin {"cc_fetch", "cc_checkout", "cc_remove_marker",
                           "cc_check_for_ant", "cc_run_ant_clean", "cc_restart"}
             /\ Did("git rev-parse") => rev = project.revision
             /\ pc \notin {"start", "cc_revision_exists", "cc_current_revision", "build"}
                   => Did("Tracing _build"))

\* the second run of a launcher whose first run checked out and removed the
\* marker: it compares, does not check out, and builds
C18_Witness ==
    /\ runs = 2
    /\ pc = "ready"
    /\ Did("git rev-parse")
    /\ ~Did("git checkout")
    /\ DidOk("ant")

\* C19 as stated: with a version-controlled repository the commit timestamp
\* is -1 exactly when BUCK_REPOSITORY_DIRTY is "1", the value that also allows
\* a dirty tree for the clean version and forces git_dirty to 1.
C19_DirtyOverrideConsistent ==
    /\ (last.name = "_get_git_commit_timestamp" /\ _is_git) =>
           ((last.result = -1) <=> (_is_buck_repo_dirty_override = "1"))
    /\ (last.name = "_get_extra_java_args" /\ last.raised = "none" /\ _is_git) =>
           /\ (last.result.git_commit_timestamp = -1)
                  <=> (_is_buck_repo_dirty_override = "1")
           /\ (last.result.git_commit_timestamp = -1) => (last.result.git_dirty = 1)

\* -Xmx occurs in s
StartsXmxAt(s, k) == s[k] = "-" /\ s[k + 1] = "X" /\ s[k + 2] = "m" /\ s[k + 3] = "x"
XmxPlaces(s) == {k \in 1..(Len(s) - 3) : StartsXmxAt(s, k)}
HeapArgOf(n) == IF n = 256 THEN <<"-", "X", "m", "x", "2", "5", "6", "m">>
                ELSE <<"-", "X", "m", "x", "1", "0", "0", "0", "m">>

\* C20: get_ant_env returns the caller's environment unchanged when its
\* ANT_OPTS holds -Xmx; otherwise ANT_OPTS becomes the old value, a single
\* space when the old value was not empty, and -Xmx<n>m, which is then the
\* only -Xmx in it; every other variable is passed through, and os.environ
\* itself is left as it was.
C20_AntEnvKeepsCallerHeap ==
    last.name = "get_ant_env" =>
        LET e == host.environ
            a == last.ant_env
            old == IF "ANT_OPTS" \in DOMAIN e THEN e["ANT_OPTS"] ELSE <<>>
            arg == HeapArgOf(last.max_heap_size_mb)
        IN /\ last.environ = e
           /\ DOMAIN a \ {"ANT_OPTS"} = DOMAIN e \ {"ANT_OPTS"}
           /\ \A k \in DOMAIN e \ {"ANT_OPTS"} : a[k] = e[k]
           /\ IF XmxPlaces(old) # {}
              THEN a = e
              ELSE /\ "ANT_OPTS" \in DOMAIN a
                   /\ a["ANT_OPTS"] = IF old = <<>> THEN arg ELSE old \o <<" ">> \o arg
                   /\ Cardinality(XmxPlaces(a["ANT_OPTS"])) = 1

C20_Witness ==
    /\ last.name = "get_ant_env"
    /\ DOMAIN host.environ = EnvNames
    /\ host.environ["ANT_OPTS"] = <<"-", "X", "m">>
    /\ last.max_heap_size_mb = 1000
    /\ last.ant_env["ANT_OPTS"] =
           <<"-", "X", "m", " ", "-", "X", "m", "x", "1", "0", "0", "0", "m">>
    /\ last.ant_env["JAVA_HOME"] = <<"/", "j">>

====
